---------------------------- MODULE Spec2Model ----------------------------
(***************************************************************************)
(* Model of the Cursive logger (src/src/logger.rs) and of the DebugView    *)
(* that reads it (src/src/views/debug_view.rs).                            *)
(*                                                                         *)
(* The three lazy_static mutexes LOGS, MODULE_LOGS and MODULE are modelled *)
(* with their content, their holder and their poison flag.  Logger threads *)
(* run CursiveLogger::log, initializer threads run init / init_for_module, *)
(* one presentation thread runs the DebugView operations.  A panic unwinds *)
(* the call: every MutexGuard the thread holds is dropped, which poisons   *)
(* the mutex, and the thread's call ends in "panicked".                    *)
(***************************************************************************)
EXTENDS Integers, Sequences, FiniteSets, TLC

(***************************************************************************)
(* Bounds of the model.                                                    *)
(***************************************************************************)
\* Number of events the logger threads emit in one behaviour.
MaxEvents == 3
\* Number of init / init_for_module calls made in one behaviour.
MaxInitCalls == 2
\* The amount init and init_for_module reserve (1_000 in logger.rs:102 and
\* logger.rs:117), scaled down so that a store fills and evicts.
ReserveAdditional == 2
\* Largest value of the clock chrono::Utc::now() reads.
MaxTime == 2
\* Largest viewport height (printer.size.y) a draw is given.
MaxViewport == 2
\* Longest target string given to get_top_level_record_module on its own.
MaxPathLen == 7

(***************************************************************************)
(* Threads and locks.                                                      *)
(***************************************************************************)
Loggers == {"L1", "L2"}
Initers == {"I1", "I2"}
Presenter == "P"
Threads == Loggers \cup Initers \cup {Presenter}
NoThread == "none"

Locks == {"LOGS", "MODULE_LOGS", "MODULE"}

None == [some |-> FALSE]
Some(v) == [some |-> TRUE, val |-> v]

Min(a, b) == IF a <= b THEN a ELSE b
Max(a, b) == IF a >= b THEN a ELSE b

(***************************************************************************)
(* Strings are sequences of characters.                                    *)
(***************************************************************************)
Str_unknown == <<"<", "u", "n", "k", "n", "o", "w", "n", ">">>
Str_net == <<"n", "e", "t">>
Str_ui == <<"u", "i">>
Str_net_tcp == <<"n", "e", "t", ":", ":", "t", "c", "p">>
Str_empty == <<>>

\* Positions at which the pattern "::" starts in s.
SepPositions(s) ==
    {i \in 1..(Len(s) - 1) : s[i] = ":" /\ s[i + 1] = ":"}

SetMin(S) == CHOOSE x \in S : \A y \in S : x <= y

\* str::split("::"): the items the iterator yields, in order.  A string
\* without the separator, the empty string included, yields itself.
RECURSIVE StrSplit(_)
StrSplit(s) ==
    IF SepPositions(s) = {}
    THEN <<s>>
    ELSE LET i == SetMin(SepPositions(s))
         IN  <<SubSeq(s, 1, i - 1)>> \o StrSplit(SubSeq(s, i + 2, Len(s)))

\* Iterator::next on the items of a split.
IterNext(items) == IF Len(items) = 0 THEN None ELSE Some(items[1])

\* Option::unwrap_or_else.
UnwrapOrElse(opt, default) == IF opt.some THEN opt.val ELSE default

\* logger.rs:47-49
get_top_level_record_module(target) ==
    UnwrapOrElse(IterNext(StrSplit(target)), Str_unknown)

(***************************************************************************)
(* log::Level and log::LevelFilter.                                        *)
(***************************************************************************)
Levels == {"Error", "Warn", "Info", "Debug", "Trace"}
LevelFilters == {"Off"} \cup Levels

\* The discriminant the derived ordering of log::Level compares
\* (Error is the smallest).
LevelUsize(l) ==
    CASE l = "Error" -> 1
      [] l = "Warn"  -> 2
      [] l = "Info"  -> 3
      [] l = "Debug" -> 4
      [] l = "Trace" -> 5

\* LevelFilter::to_level
to_level(f) == IF f = "Off" THEN None ELSE Some(f)

\* Mutant of record_above_set_filter: the threshold itself is hidden.
record_strictly_above_set_filter(record_level, display_filter) ==
    LET display_level == to_level(display_filter)
    IN  IF display_level.some
        THEN LevelUsize(record_level) < LevelUsize(display_level.val)
        ELSE TRUE

\* debug_view.rs:16-25
record_above_set_filter(record_level, display_filter) ==
    LET display_level == to_level(display_filter)
    IN  IF display_level.some
        THEN LevelUsize(record_level) <= LevelUsize(display_level.val)
        ELSE TRUE

(***************************************************************************)
(* VecDeque capacity.                                                      *)
(***************************************************************************)
\* VecDeque::reserve(additional): the capacity afterwards.  Nothing changes
\* when len + additional fits; otherwise the buffer grows to the larger of
\* twice the capacity and len + additional.
reserve(cap, len, additional) ==
    IF len + additional > cap
    THEN Max(2 * cap, len + additional)
    ELSE cap

(***************************************************************************)
(* State.                                                                  *)
(***************************************************************************)
Buffers == {"LOGS", "MODULE_LOGS"}

VARIABLES
    deque,        \* [Buffers -> Seq(Record)]: the content of each VecDeque
    capacity,     \* [Buffers -> Nat]: VecDeque::capacity() of each
    custom_module, \* Option<String>: the content of the MODULE mutex
    lock_holder,  \* [Locks -> Threads \cup {NoThread}]
    poisoned,     \* [Locks -> BOOLEAN]
    logger_set,   \* whether log::set_logger has installed LOGGER
    now,          \* the clock chrono::Utc::now() reads
    pc,           \* [Threads -> position in the running call]
    record,       \* [Loggers -> Option of the log::Record of the running log call]
    log_buffer,   \* [Loggers -> the buffer log_record_to was called with]
    module,       \* [Initers -> the argument of the running init call]
    next_event,   \* number of the next event the environment emits
    init_calls,   \* number of init / init_for_module calls started so far
    log_filter,   \* DebugView::log_filter
    module_filter,\* DebugView::module_filter
    select_items, \* items of the "Filter Log Modules" SelectView
    frame,        \* locals of the running DebugView call
    appended,     \* history: [Buffers -> number of every event pushed, in order]
    registered_at,\* history: the source last assigned to MODULE, and the
                  \* number of the first event emitted after the assignment
    at_call,      \* history: [Initers -> the registry when the call was made]
    call          \* the running direct call of a pure function, its result

capture_vars == <<deque, capacity, custom_module, lock_holder, poisoned, logger_set, now>>
thread_vars == <<pc, record, log_buffer, module, next_event, init_calls>>
view_vars == <<log_filter, module_filter, select_items, frame>>
hist_vars == <<appended, registered_at, at_call>>
vars == <<capture_vars, thread_vars, view_vars, hist_vars, call>>

LOGS == deque["LOGS"]
MODULE_LOGS == deque["MODULE_LOGS"]

\* The events the environment emits: (level, target).  args is the number
\* of the event, so that every event is told apart.
EventKinds ==
    { <<"Error", Str_ui>>, <<"Info", Str_net_tcp>>, <<"Warn", Str_empty>> }

\* The modules init_for_module is called with.
Modules == {Str_net, Str_ui}

\* debug_view.rs:122-127
DebugView_new == [log_filter |-> "Off", module_filter |-> "All"]

NoFrame == [fn |-> "none"]
NoCall == [fn |-> "none"]

Init ==
    /\ deque = [b \in Buffers |-> <<>>]
    /\ capacity = [b \in Buffers |-> 0]
    /\ custom_module = None
    /\ lock_holder = [l \in Locks |-> NoThread]
    /\ poisoned = [l \in Locks |-> FALSE]
    /\ logger_set = FALSE
    /\ now = 0
    /\ pc = [t \in Threads |-> "idle"]
    /\ record = [t \in Loggers |-> None]
    /\ log_buffer = [t \in Loggers |-> "LOGS"]
    /\ module = [t \in Initers |-> None]
    /\ next_event = 1
    /\ init_calls = 0
    /\ log_filter = DebugView_new.log_filter
    /\ module_filter = DebugView_new.module_filter
    /\ select_items = <<>>
    /\ frame = NoFrame
    /\ appended = [b \in Buffers |-> <<>>]
    /\ registered_at = None
    /\ at_call = [t \in Initers |-> None]
    /\ call = NoCall

(***************************************************************************)
(* Mutex and panic.                                                        *)
(***************************************************************************)
\* Mutex::lock blocks until the mutex is free.
CanLock(l) == lock_holder[l] = NoThread

\* The locks after thread t takes l.
Locked(t, l) == [lock_holder EXCEPT ![l] = t]

\* The locks after thread t drops its guard of l.
Unlocked(t, l) == [lock_holder EXCEPT ![l] = NoThread]

\* The locks after thread t drops every guard it holds.
Released(t) == [l \in Locks |-> IF lock_holder[l] = t THEN NoThread ELSE lock_holder[l]]
\* A panic of thread t unwinds its call: every guard it holds is dropped
\* while panicking, which poisons the mutex.
Unwound(t) == Released(t)
PoisonedBy(t) == [l \in Locks |-> poisoned[l] \/ lock_holder[l] = t]

\* A thread makes its calls one after the other; a thread that panicked is
\* gone.
Ended(t) == pc[t] = "idle"

(***************************************************************************)
(* log_record_to, logger.rs:51-68                                          *)
(***************************************************************************)
\* Mutant of pop_front_if_full: the newest record is evicted.
pop_back_if_full(logs, cap) ==
    IF Len(logs) = cap /\ Len(logs) > 0
    THEN SubSeq(logs, 1, Len(logs) - 1)
    ELSE logs

\* logger.rs:55-57: the deque after the conditional pop_front.
pop_front_if_full(logs, cap) ==
    IF Len(logs) = cap /\ Len(logs) > 0 THEN Tail(logs) ELSE logs

\* logger.rs:62-67: the Record pushed for a log::Record at time t.
NewRecord(r, t) ==
    [ level   |-> r.level,
      module  |-> get_top_level_record_module(r.target),
      message |-> r.args,
      time    |-> t ]

\* logger.rs:52-57: log_buffer.lock().unwrap(), then the eviction, by
\* thread t on buffer b.
LrtLocked(t, b) ==
    /\ CanLock(b)
    /\ IF poisoned[b]
       THEN /\ pc' = [pc EXCEPT ![t] = "panicked"]
            /\ lock_holder' = Unwound(t)
            /\ poisoned' = PoisonedBy(t)
            /\ UNCHANGED deque
       ELSE /\ pc' = [pc EXCEPT ![t] = "lrt_push"]
            /\ lock_holder' = Locked(t, b)
            /\ deque' = [deque EXCEPT ![b] = pop_front_if_full(@, capacity[b])]
            /\ UNCHANGED poisoned

\* logger.rs:84: log_record_to(&record, &MODULE_LOGS), up to the eviction.
LrtLock(t) ==
    /\ pc[t] = "lrt_lock"
    /\ LrtLocked(t, log_buffer[t])
    /\ UNCHANGED <<capacity, custom_module, logger_set, now, record,
                   log_buffer, module, next_event, init_calls, view_vars,
                   hist_vars, call>>

\* VecDeque::push_back grows a deque that is full.
push_back_capacity(logs, cap) ==
    IF Len(logs) = cap THEN Max(2 * cap, Len(logs) + 1) ELSE cap

\* Mutant of LrtPush: the record is pushed at the front.
LrtPush_push_front(t) ==
    /\ pc[t] = "lrt_push"
    /\ LET b == log_buffer[t]
           r == NewRecord(record[t].val, now)
       IN  /\ deque' = [deque EXCEPT ![b] = <<r>> \o @]
           /\ capacity' = [capacity EXCEPT ![b] = push_back_capacity(deque[b], @)]
           /\ appended' = [appended EXCEPT ![b] = Append(@, r.message)]
           /\ IF b = "LOGS"
              THEN /\ pc' = [pc EXCEPT ![t] = "log_module"]
                   /\ lock_holder' = Unlocked(t, b)
                   /\ UNCHANGED record
              ELSE /\ pc' = [pc EXCEPT ![t] = "idle"]
                   /\ lock_holder' = Released(t)
                   /\ record' = [record EXCEPT ![t] = None]
    /\ log_buffer' = [log_buffer EXCEPT ![t] = "LOGS"]
    /\ UNCHANGED <<custom_module, poisoned, logger_set, now, module,
                   next_event, init_calls, view_vars, registered_at, at_call,
                   call>>

\* Mutant of LrtPush: the guard of LOGS lives to the end of log.
LrtPush_keeps_guard(t) ==
    /\ pc[t] = "lrt_push"
    /\ LET b == log_buffer[t]
           r == NewRecord(record[t].val, now)
       IN  /\ deque' = [deque EXCEPT ![b] = Append(@, r)]
           /\ capacity' = [capacity EXCEPT ![b] = push_back_capacity(deque[b], @)]
           /\ appended' = [appended EXCEPT ![b] = Append(@, r.message)]
           /\ IF b = "LOGS"
              THEN /\ pc' = [pc EXCEPT ![t] = "log_module"]
                   /\ UNCHANGED <<lock_holder, record>>
              ELSE /\ pc' = [pc EXCEPT ![t] = "idle"]
                   /\ lock_holder' = Released(t)
                   /\ record' = [record EXCEPT ![t] = None]
    /\ log_buffer' = [log_buffer EXCEPT ![t] = "LOGS"]
    /\ UNCHANGED <<custom_module, poisoned, logger_set, now, module,
                   next_event, init_calls, view_vars, registered_at, at_call,
                   call>>


\* call made from logger.rs:76 goes on to MODULE.lock(); the one made from
\* logger.rs:84 ends log, which drops the guard of MODULE.
LrtPush(t) ==
    /\ pc[t] = "lrt_push"
    /\ LET b == log_buffer[t]
           r == NewRecord(record[t].val, now)
       IN  /\ deque' = [deque EXCEPT ![b] = Append(@, r)]
           /\ capacity' = [capacity EXCEPT ![b] = push_back_capacity(deque[b], @)]
           /\ appended' = [appended EXCEPT ![b] = Append(@, r.message)]
           /\ IF b = "LOGS"
              THEN /\ pc' = [pc EXCEPT ![t] = "log_module"]
                   /\ lock_holder' = Unlocked(t, b)
                   /\ UNCHANGED record
              ELSE /\ pc' = [pc EXCEPT ![t] = "idle"]
                   /\ lock_holder' = Released(t)
                   /\ record' = [record EXCEPT ![t] = None]
    /\ log_buffer' = [log_buffer EXCEPT ![t] = "LOGS"]
    /\ UNCHANGED <<custom_module, poisoned, logger_set, now, module,
                   next_event, init_calls, view_vars, registered_at, at_call,
                   call>>

\* The clock chrono::Utc::now() reads (logger.rs:66) advances; it never goes
\* back.
Tick ==
    /\ now < MaxTime
    /\ now' = now + 1
    /\ UNCHANGED <<deque, capacity, custom_module, lock_holder, poisoned,
                   logger_set, thread_vars, view_vars, hist_vars, call>>

(***************************************************************************)
(* CursiveLogger::log, logger.rs:75-89                                     *)
(***************************************************************************)
\* logger.rs:71-73
enabled(metadata) == TRUE

\* Mutant of Log: the events less severe than Warn are dropped at capture.
Log_capture_filtered(t) ==
    /\ t \in Loggers
    /\ Ended(t)
    /\ logger_set
    /\ next_event <= MaxEvents
    /\ \E k \in EventKinds :
        IF LevelUsize(k[1]) <= LevelUsize("Warn")
        THEN /\ record' = [record EXCEPT ![t] =
                     Some([level |-> k[1], target |-> k[2], args |-> next_event])]
             /\ LrtLocked(t, "LOGS")
        ELSE UNCHANGED <<record, pc, lock_holder, poisoned, deque>>
    /\ next_event' = next_event + 1
    /\ log_buffer' = [log_buffer EXCEPT ![t] = "LOGS"]
    /\ UNCHANGED <<capacity, custom_module, logger_set, now, module,
                   init_calls, view_vars, hist_vars, call>>

\* The log crate hands an event to the installed logger, which calls
\* log_record_to(&record, &LOGS) (logger.rs:76), up to the eviction.  The
\* events are numbered in the order in which their calls take the lock.
LogEvent(t, k) ==
    /\ t \in Loggers
    /\ Ended(t)
    /\ logger_set
    /\ record' = [record EXCEPT ![t] =
                     Some([level |-> k[1], target |-> k[2], args |-> next_event])]
    /\ next_event' = next_event + 1
    /\ log_buffer' = [log_buffer EXCEPT ![t] = "LOGS"]
    /\ LrtLocked(t, "LOGS")
    /\ UNCHANGED <<capacity, custom_module, logger_set, now, module,
                   init_calls, view_vars, hist_vars, call>>

\* A log call for any of the events of EventKinds.
Log(t) ==
    /\ next_event <= MaxEvents
    /\ \E k \in EventKinds : LogEvent(t, k)

\* The events A, B and C of the end-to-end scenario, logged in this order.
ScenarioEvents ==
    << <<"Error", Str_ui>>, <<"Info", Str_net>>, <<"Warn", Str_net>> >>

\* A log call for the next event of the scenario.
LogScenario(t) ==
    /\ next_event <= Len(ScenarioEvents)
    /\ LogEvent(t, ScenarioEvents[next_event])

\* Mutant of LogModule: no event is routed to the secondary store.
LogModule_never_routes(t) ==
    /\ pc[t] = "log_module"
    /\ CanLock("MODULE")
    /\ pc' = [pc EXCEPT ![t] = IF poisoned["MODULE"] THEN "panicked" ELSE "idle"]
    /\ record' = [record EXCEPT ![t] = None]
    /\ UNCHANGED <<deque, capacity, custom_module, lock_holder, poisoned,
                   logger_set, now, log_buffer, module, next_event,
                   init_calls, view_vars, hist_vars, call>>

\* logger.rs:78-88: MODULE.lock().unwrap() and the match.
LogModule(t) ==
    /\ pc[t] = "log_module"
    /\ CanLock("MODULE")
    /\ IF poisoned["MODULE"]
       THEN /\ pc' = [pc EXCEPT ![t] = "panicked"]
            /\ record' = [record EXCEPT ![t] = None]
            /\ UNCHANGED <<lock_holder, log_buffer>>
       ELSE IF custom_module.some
               /\ get_top_level_record_module(record[t].val.target) = custom_module.val
       THEN /\ pc' = [pc EXCEPT ![t] = "lrt_lock"]
            /\ log_buffer' = [log_buffer EXCEPT ![t] = "MODULE_LOGS"]
            /\ lock_holder' = Locked(t, "MODULE")
            /\ UNCHANGED record
       ELSE /\ pc' = [pc EXCEPT ![t] = "idle"]
            /\ record' = [record EXCEPT ![t] = None]
            /\ UNCHANGED <<lock_holder, log_buffer>>
    /\ UNCHANGED <<deque, capacity, custom_module, poisoned, logger_set, now, module,
                   next_event, init_calls, view_vars, hist_vars, call>>

(***************************************************************************)
(* init and init_for_module, logger.rs:100-120                             *)
(***************************************************************************)
\* The registry and the handler as a call finds them.
Registry ==
    [ custom_module |-> custom_module,
      secondary_capacity |-> capacity["MODULE_LOGS"],
      logger_set |-> logger_set ]

\* A thread calls init().
CallInit(t) ==
    /\ t \in Initers
    /\ Ended(t)
    /\ init_calls < MaxInitCalls
    /\ init_calls' = init_calls + 1
    /\ module' = [module EXCEPT ![t] = None]
    /\ at_call' = [at_call EXCEPT ![t] = Some(Registry)]
    /\ pc' = [pc EXCEPT ![t] = "init_reserve"]
    /\ UNCHANGED <<capture_vars, record, log_buffer, next_event, view_vars,
                   appended, registered_at, call>>

\* A thread calls init_for_module(m).
CallInitForModule(t) ==
    /\ t \in Initers
    /\ Ended(t)
    /\ init_calls < MaxInitCalls
    /\ init_calls' = init_calls + 1
    /\ \E m \in Modules : module' = [module EXCEPT ![t] = Some(m)]
    /\ at_call' = [at_call EXCEPT ![t] = Some(Registry)]
    /\ pc' = [pc EXCEPT ![t] = "ifm_lock"]
    /\ UNCHANGED <<capture_vars, record, log_buffer, next_event, view_vars,
                   appended, registered_at, call>>

\* logger.rs:113-114: MODULE.lock().unwrap() and the assignment.  at_call
\* keeps the registry as the call finds it under the guard.
IfmLock(t) ==
    /\ pc[t] = "ifm_lock"
    /\ CanLock("MODULE")
    /\ IF poisoned["MODULE"]
       THEN /\ pc' = [pc EXCEPT ![t] = "panicked"]
            /\ UNCHANGED <<custom_module, lock_holder, registered_at,
                           at_call>>
       ELSE /\ pc' = [pc EXCEPT ![t] = "ifm_reserve"]
            /\ custom_module' = Some(module[t].val)
            /\ lock_holder' = Locked(t, "MODULE")
            /\ registered_at' = Some([source |-> module[t].val,
                                      from |-> next_event])
            /\ at_call' = [at_call EXCEPT ![t] =
                  Some([Registry EXCEPT
                            !.logger_set = at_call[t].val.logger_set])]
    /\ UNCHANGED <<deque, capacity, poisoned, logger_set, now, record,
                   log_buffer, module, next_event, init_calls, view_vars,
                   appended, call>>

\* The guard of a statement `X.lock().unwrap().reserve(n)` is a temporary:
\* the lock is taken, the capacity reserved and the lock dropped.
ReserveIn(t, b, next_pc) ==
    /\ CanLock(b)
    /\ IF poisoned[b]
       THEN /\ pc' = [pc EXCEPT ![t] = "panicked"]
            /\ lock_holder' = Unwound(t)
            /\ poisoned' = PoisonedBy(t)
            /\ UNCHANGED capacity
       ELSE /\ pc' = [pc EXCEPT ![t] = next_pc]
            /\ capacity' = [capacity EXCEPT ![b] =
                              reserve(@, Len(deque[b]), ReserveAdditional)]
            /\ UNCHANGED <<lock_holder, poisoned>>
    /\ UNCHANGED <<deque, custom_module, logger_set, now, record, log_buffer,
                   module, next_event, init_calls, view_vars, hist_vars, call>>

\* logger.rs:117
IfmReserve(t) ==
    /\ pc[t] = "ifm_reserve"
    /\ ReserveIn(t, "MODULE_LOGS", "init_reserve")

\* logger.rs:102
InitReserve(t) ==
    /\ pc[t] = "init_reserve"
    /\ ReserveIn(t, "LOGS", "init_set_logger")

\* Mutant of InitSetLogger: the error of set_logger is ignored.
InitSetLogger_ignore_error(t) ==
    /\ pc[t] = "init_set_logger"
    /\ logger_set' = TRUE
    /\ IF module[t].some
       THEN /\ pc' = [pc EXCEPT ![t] = "ifm_return"]
            /\ UNCHANGED <<module, at_call>>
       ELSE /\ pc' = [pc EXCEPT ![t] = "idle"]
            /\ module' = [module EXCEPT ![t] = None]
            /\ at_call' = [at_call EXCEPT ![t] = None]
    /\ UNCHANGED <<deque, capacity, custom_module, lock_holder, poisoned, now,
                   record, log_buffer, next_event, init_calls, view_vars,
                   appended, registered_at, call>>

\* logger.rs:105-109: log::set_logger(&LOGGER).unwrap().  set_logger fails
\* when a logger is installed; the panic unwinds through init_for_module,
\* whose guard of MODULE is dropped while panicking.
InitSetLogger(t) ==
    /\ pc[t] = "init_set_logger"
    /\ IF logger_set
       THEN /\ pc' = [pc EXCEPT ![t] = "panicked"]
            /\ lock_holder' = Unwound(t)
            /\ poisoned' = PoisonedBy(t)
            /\ UNCHANGED <<logger_set, module, at_call>>
       ELSE /\ logger_set' = TRUE
            /\ IF module[t].some
               THEN /\ pc' = [pc EXCEPT ![t] = "ifm_return"]
                    /\ UNCHANGED <<module, at_call>>
               ELSE /\ pc' = [pc EXCEPT ![t] = "idle"]
                    /\ module' = [module EXCEPT ![t] = None]
                    /\ at_call' = [at_call EXCEPT ![t] = None]
            /\ UNCHANGED <<lock_holder, poisoned>>
    /\ UNCHANGED <<deque, capacity, custom_module, now, record, log_buffer,
                   next_event, init_calls, view_vars, appended, registered_at,
                   call>>

\* logger.rs:120: init_for_module returns and drops its guard of MODULE.
IfmReturn(t) ==
    /\ pc[t] = "ifm_return"
    /\ lock_holder' = Released(t)
    /\ pc' = [pc EXCEPT ![t] = "idle"]
    /\ module' = [module EXCEPT ![t] = None]
    /\ at_call' = [at_call EXCEPT ![t] = None]
    /\ UNCHANGED <<deque, capacity, custom_module, poisoned, logger_set, now,
                   record, log_buffer, next_event, init_calls,
                   view_vars, appended, registered_at, call>>

(***************************************************************************)
(* DebugViewFilter and DebugView, debug_view.rs                            *)
(***************************************************************************)
Str_All == <<"A", "l", "l">>

\* The items of the "Filter Log Levels" SelectView, debug_view.rs:35-38.
LogFilterItems == {"Debug", "Info", "Warn", "Error"}

\* debug_view.rs:75-97, called by DebugViewFilter::new: the SelectView
\* holds "All", and the module when MODULE holds one.  The guard of MODULE
\* is taken for the read and dropped at the return.
debug_set_mod_filter ==
    /\ Ended(Presenter)
    /\ CanLock("MODULE")
    /\ IF poisoned["MODULE"]
       THEN /\ pc' = [pc EXCEPT ![Presenter] = "panicked"]
            /\ UNCHANGED select_items
       ELSE /\ select_items' =
                 <<[label |-> Str_All, value |-> "All"]>> \o
                 (IF custom_module.some
                  THEN <<[label |-> custom_module.val, value |-> "Module"]>>
                  ELSE <<>>)
            /\ UNCHANGED pc
    /\ UNCHANGED <<capture_vars, record, log_buffer, module, next_event,
                   init_calls, log_filter, module_filter, frame, hist_vars, call>>

\* Mutant of set_filter: the records under the new threshold are dropped
\* from the primary store.
set_filter_at_capture ==
    /\ Ended(Presenter)
    /\ select_items # <<>>
    /\ \E new_filter \in LogFilterItems :
        /\ new_filter # log_filter
        /\ log_filter' = new_filter
        /\ deque' = [deque EXCEPT !["LOGS"] =
              SelectSeq(@, LAMBDA r : record_above_set_filter(r.level, new_filter))]
    /\ UNCHANGED <<capacity, custom_module, lock_holder, poisoned, logger_set,
                   now, pc, record, log_buffer, module, next_event,
                   init_calls, module_filter, select_items, frame, hist_vars,
                   call>>

\* debug_view.rs:39-47 and 130-132: an item of the level SelectView is
\* submitted.
set_filter ==
    /\ Ended(Presenter)
    /\ select_items # <<>>
    /\ \E new_filter \in LogFilterItems :
        /\ new_filter # log_filter
        /\ log_filter' = new_filter
    /\ UNCHANGED <<capture_vars, pc, record, log_buffer, module, next_event,
                   init_calls, module_filter, select_items, frame, hist_vars, call>>

\* debug_view.rs:78-86 and 135-137: an item of the module SelectView is
\* submitted.
set_module ==
    /\ Ended(Presenter)
    /\ \E k \in 1..Len(select_items) :
        /\ select_items[k].value # module_filter
        /\ module_filter' = select_items[k].value
    /\ UNCHANGED <<capture_vars, pc, record, log_buffer, module, next_event,
                   init_calls, log_filter, select_items, frame, hist_vars, call>>

\* Mutant of saturating_sub: one less is skipped.
saturating_sub_one_less(a, b) == IF a > b THEN a - b - 1 ELSE 0

\* usize::saturating_sub
saturating_sub(a, b) == IF a >= b THEN a - b ELSE 0

\* Mutant of logs_to_display_of: the primary store whatever the scope.
logs_to_display_always_primary(filter) == "LOGS"

\* debug_view.rs:148-151: the store draw locks.
logs_to_display_of(filter) ==
    IF filter = "All" THEN "LOGS" ELSE "MODULE_LOGS"

\* debug_view.rs:156-184: the rows the loop prints from position pos
\* (1-based) on, the next row being i.
RECURSIVE draw_rows(_, _, _, _)
draw_rows(logs, pos, i, filter) ==
    IF pos > Len(logs)
    THEN <<>>
    ELSE IF record_above_set_filter(logs[pos].level, filter)
         THEN <<[row |-> i, record |-> logs[pos]]>>
              \o draw_rows(logs, pos + 1, i + 1, filter)
         ELSE draw_rows(logs, pos + 1, i, filter)

\* Mutant of draw: the selected store is read without its lock.
draw_without_lock ==
    /\ Ended(Presenter)
    /\ \E y \in 1..MaxViewport :
        LET b == logs_to_display_of(module_filter)
            logs == deque[b]
            skipped == saturating_sub(Len(logs), y)
        IN  /\ pc' = [pc EXCEPT ![Presenter] = "draw_return"]
            /\ frame' = [fn |-> "draw", size_y |-> y, store |-> b,
                         skipped |-> skipped,
                         iterated |-> SubSeq(logs, skipped + 1, Len(logs)),
                         printed |-> draw_rows(logs, skipped + 1, 0,
                                               log_filter)]
    /\ UNCHANGED <<capture_vars, record, log_buffer, module, next_event,
                   init_calls, log_filter, module_filter, select_items,
                   hist_vars, call>>

\* debug_view.rs:147-184: draw on a printer of height y locks the selected
\* store, computes skipped and runs the loop over
\* logs_to_display.iter().skip(skipped); the guard lives to the return.
draw ==
    /\ Ended(Presenter)
    /\ \E y \in 1..MaxViewport :
        LET b == logs_to_display_of(module_filter)
            logs == deque[b]
            skipped == saturating_sub(Len(logs), y)
        IN  /\ CanLock(b)
            /\ IF poisoned[b]
               THEN /\ pc' = [pc EXCEPT ![Presenter] = "panicked"]
                    /\ UNCHANGED <<lock_holder, frame>>
               ELSE /\ pc' = [pc EXCEPT ![Presenter] = "draw_return"]
                    /\ lock_holder' = Locked(Presenter, b)
                    /\ frame' = [fn |-> "draw", size_y |-> y, store |-> b,
                                 skipped |-> skipped,
                                 iterated |-> SubSeq(logs, skipped + 1, Len(logs)),
                                 printed |-> draw_rows(logs, skipped + 1, 0,
                                                       log_filter)]
    /\ UNCHANGED <<deque, capacity, custom_module, poisoned, logger_set, now,
                   record, log_buffer, module, next_event, init_calls,
                   log_filter, module_filter, select_items, hist_vars, call>>

\* debug_view.rs:185: draw returns and drops the guard.
DrawReturn ==
    /\ pc[Presenter] = "draw_return"
    /\ lock_holder' = Released(Presenter)
    /\ frame' = NoFrame
    /\ pc' = [pc EXCEPT ![Presenter] = "idle"]
    /\ UNCHANGED <<deque, capacity, custom_module, poisoned, logger_set, now,
                   record, log_buffer, module, next_event, init_calls,
                   log_filter, module_filter, select_items, hist_vars, call>>

\* The width of a number printed with "{}".
RECURSIVE DecimalWidth(_)
DecimalWidth(n) == IF n < 10 THEN 1 ELSE 1 + DecimalWidth(n \div 10)

\* debug_view.rs:191-203: the width of the line of one record.
LineWidth(r) == DecimalWidth(r.message) + Len(r.module) + 7 + 12 + 3 * 3

\* Iterator::max on the widths, then unwrap_or(1).
MaxWidth(logs) ==
    LET widths == {LineWidth(logs[k]) : k \in 1..Len(logs)}
    IN  IF widths = {} THEN 1
        ELSE CHOOSE w \in widths : \A v \in widths : v <= w

\* debug_view.rs:187-209
required_size ==
    /\ Ended(Presenter)
    /\ CanLock("LOGS")
    /\ IF poisoned["LOGS"]
       THEN /\ pc' = [pc EXCEPT ![Presenter] = "panicked"]
            /\ UNCHANGED <<lock_holder, frame>>
       ELSE /\ pc' = [pc EXCEPT ![Presenter] = "required_size_return"]
            /\ lock_holder' = Locked(Presenter, "LOGS")
            /\ frame' = [fn |-> "required_size",
                         w |-> MaxWidth(LOGS), h |-> Len(LOGS)]
    /\ UNCHANGED <<deque, capacity, custom_module, poisoned, logger_set, now,
                   record, log_buffer, module, next_event, init_calls,
                   log_filter, module_filter, select_items, hist_vars, call>>

\* debug_view.rs:209-210: required_size returns and drops the guard.
RequiredSizeReturn ==
    /\ pc[Presenter] = "required_size_return"
    /\ lock_holder' = Released(Presenter)
    /\ frame' = NoFrame
    /\ pc' = [pc EXCEPT ![Presenter] = "idle"]
    /\ UNCHANGED <<deque, capacity, custom_module, poisoned, logger_set, now,
                   record, log_buffer, module, next_event, init_calls,
                   log_filter, module_filter, select_items, hist_vars, call>>

(***************************************************************************)
(* The system.                                                             *)
(***************************************************************************)
LoggerStep(t) ==
    \/ Log(t)
    \/ LrtPush(t)
    \/ LogModule(t)
    \/ LrtLock(t)

IniterStep(t) ==
    \/ CallInit(t)
    \/ CallInitForModule(t)
    \/ IfmLock(t)
    \/ IfmReserve(t)
    \/ InitReserve(t)
    \/ InitSetLogger(t)
    \/ IfmReturn(t)

PresenterStep ==
    \/ debug_set_mod_filter
    \/ set_filter
    \/ set_module
    \/ draw
    \/ DrawReturn
    \/ required_size
    \/ RequiredSizeReturn

\* The capture pipeline under concurrent log calls: two logger threads and
\* one initializer thread.
Next ==
    \/ \E t \in Loggers : LoggerStep(t)
    \/ \E t \in {"I1"} : IniterStep(t)

Spec == Init /\ [][Next]_vars

\* The capture pipeline with the clock running: two threads log the events
\* of the scenario beside one initializer thread.
NextClock ==
    \/ \E t \in Loggers : \/ LogScenario(t)
                          \/ LrtPush(t)
                          \/ LogModule(t)
                          \/ LrtLock(t)
    \/ \E t \in {"I1"} : IniterStep(t)
    \/ Tick

SpecClock == Init /\ [][NextClock]_vars

\* The steps inside a log call, an initialization call and a call of the
\* view: what a thread does once its call has started.
LoggerRuns(t) == LrtPush(t) \/ LogModule(t) \/ LrtLock(t)

IniterRuns(t) ==
    IfmLock(t) \/ IfmReserve(t) \/ InitReserve(t) \/ InitSetLogger(t)
        \/ IfmReturn(t)

PresenterRuns == DrawReturn \/ RequiredSizeReturn

\* Every lock user at once: two threads log the events of the scenario, one
\* thread initializes, the presentation thread builds the module selector,
\* changes the scope, draws and measures.
NextLive ==
    \/ \E t \in Loggers : LogScenario(t) \/ LoggerRuns(t)
    \/ \E t \in {"I1"} : CallInit(t) \/ CallInitForModule(t) \/ IniterRuns(t)
    \/ debug_set_mod_filter
    \/ set_module
    \/ draw
    \/ required_size
    \/ PresenterRuns

\* The scheduler runs every thread that is inside a call, and a thread that
\* waits for a mutex which is free again and again gets it in the end.
\* Nothing obliges a thread to start a call.
Fairness ==
    /\ \A t \in Loggers : SF_vars(LoggerRuns(t))
    /\ \A t \in {"I1"} : SF_vars(IniterRuns(t))
    /\ WF_vars(PresenterRuns)

SpecLive == Init /\ [][NextLive]_vars /\ Fairness

\* Concurrent initialization: two initializer threads and one logger thread.
NextInit ==
    \/ \E t \in {"L1"} : LoggerStep(t)
    \/ \E t \in Initers : IniterStep(t)

SpecInit == Init /\ [][NextInit]_vars

\* The presentation thread beside one logger thread and one initializer
\* thread.
NextView ==
    \/ \E t \in {"L1"} : LoggerStep(t)
    \/ \E t \in {"I1"} : IniterStep(t)
    \/ PresenterStep

SpecView == Init /\ [][NextView]_vars

\* The end-to-end scenario: one thread logs A, B and C in this order beside
\* one initializer thread and the presentation thread.
NextScenario ==
    \/ \E t \in {"L1"} : \/ LogScenario(t)
                         \/ LrtPush(t)
                         \/ LogModule(t)
                         \/ LrtLock(t)
    \/ \E t \in {"I1"} : IniterStep(t)
    \/ PresenterStep

SpecScenario == Init /\ [][NextScenario]_vars

(***************************************************************************)
(* The pure functions, called on their own.                                *)
(***************************************************************************)
PathChars == {"a", "b", "c", ":"}

\* Every string over PathChars of at most MaxPathLen characters.
Paths == UNION {[1..n -> PathChars] : n \in 0..MaxPathLen}

get_top_level_record_module_call ==
    /\ call = NoCall
    /\ \E target \in Paths :
        call' = [fn |-> "get_top_level_record_module", target |-> target,
                 ret |-> get_top_level_record_module(target)]
    /\ UNCHANGED <<capture_vars, thread_vars, view_vars, hist_vars>>

record_above_set_filter_call ==
    /\ call = NoCall
    /\ \E record_level \in Levels, display_filter \in LevelFilters :
        call' = [fn |-> "record_above_set_filter",
                 record_level |-> record_level,
                 display_filter |-> display_filter,
                 ret |-> record_above_set_filter(record_level, display_filter)]
    /\ UNCHANGED <<capture_vars, thread_vars, view_vars, hist_vars>>

call_return ==
    /\ call # NoCall
    /\ call' = NoCall
    /\ UNCHANGED <<capture_vars, thread_vars, view_vars, hist_vars>>

NextUnit ==
    \/ get_top_level_record_module_call
    \/ record_above_set_filter_call
    \/ call_return

SpecUnit == Init /\ [][NextUnit]_vars

(***************************************************************************)
(* Properties.                                                             *)
(***************************************************************************)
\* The event numbers of the records of a store, in storage order.
Ids(logs) == [k \in 1..Len(logs) |-> logs[k].message]

\* The last k elements of a sequence.
LastK(seq, k) == SubSeq(seq, Len(seq) - k + 1, Len(seq))

Range(seq) == {seq[k] : k \in 1..Len(seq)}

\* A log_record_to call on buffer b is between its eviction and its push.
MidAppend(b) ==
    \E t \in Loggers : pc[t] = "lrt_push" /\ log_buffer[t] = b

\* C1: a store never holds more records than its capacity, and an append
\* never changes the capacity (only the reserve of a second init call
\* does).  After M complete appends a store holds the last records
\* appended, in append order: the last min(M, N) of them for a store whose
\* capacity is the N init reserved.
C1_BoundedFifo ==
    \A b \in Buffers :
        /\ Len(deque[b]) <= capacity[b]
        /\ init_calls <= 1 => capacity[b] \in {0, ReserveAdditional}
        /\ ~MidAppend(b) =>
            /\ Ids(deque[b]) = LastK(appended[b], Len(deque[b]))
            /\ capacity[b] = ReserveAdditional =>
                Len(deque[b]) = Min(Len(appended[b]), capacity[b])

\* C1, witness: more records were appended to the primary store than its
\* capacity, the oldest were evicted and the store is full.
C1_Witness ==
    /\ ~MidAppend("LOGS")
    /\ capacity["LOGS"] = ReserveAdditional
    /\ Len(appended["LOGS"]) > capacity["LOGS"]
    /\ Len(LOGS) = capacity["LOGS"]
    /\ Ids(LOGS) = LastK(appended["LOGS"], capacity["LOGS"])

\* The log call of event number id is running.
InFlight(id) ==
    \E t \in Loggers : record[t].some /\ record[t].val.args = id

\* C2: once a source is registered, every later event of that source whose
\* log call has ended was appended to the secondary store as well as to the
\* primary store, and the events of that source held by both stores are in
\* the same order in both.
C2_FanOutSameOrder ==
    registered_at.some =>
        LET later(r) == /\ r.module = registered_at.val.source
                        /\ r.message >= registered_at.val.from
                        /\ ~InFlight(r.message)
            primary == SelectSeq(LOGS, later)
            in_both(r) == /\ r.message \in Range(Ids(primary))
                          /\ r.message \in Range(Ids(MODULE_LOGS))
        IN  /\ \A k \in 1..Len(primary) :
                   primary[k].message \in Range(appended["MODULE_LOGS"])
            /\ Ids(SelectSeq(LOGS, in_both))
                   = Ids(SelectSeq(MODULE_LOGS, in_both))

\* The part of C2 about the order alone.
C2_SameOrder ==
    LET in_both(r) == /\ r.message \in Range(Ids(LOGS))
                      /\ r.message \in Range(Ids(MODULE_LOGS))
    IN  Ids(SelectSeq(LOGS, in_both)) = Ids(SelectSeq(MODULE_LOGS, in_both))

\* The log_record_to calls on the primary store that have evicted and not
\* yet pushed.
PrimaryPending ==
    {t \in Loggers : pc[t] = "lrt_push" /\ log_buffer[t] = "LOGS"}

\* C3: every event handed to log is pushed on the primary store, once and
\* in the order of the calls, whatever its level, its target, the content
\* of MODULE and its routing to the secondary store; the record pushed last
\* is at the tail; enabled is true of every metadata.
C3_PrimaryAlwaysAppended ==
    LET n == next_event - 1 - Cardinality(PrimaryPending)
    IN  /\ appended["LOGS"] = [k \in 1..n |-> k]
        /\ (PrimaryPending = {} /\ n > 0) =>
               /\ Len(LOGS) > 0
               /\ LOGS[Len(LOGS)].message = n
        /\ \A l \in Levels, k \in EventKinds :
               enabled([level |-> l, target |-> k[2]])

\* C3, witness: the primary store holds a record of an event with an empty
\* target and a record that was also pushed on the secondary store, while
\* MODULE is poisoned.
C3_Witness ==
    /\ PrimaryPending = {}
    /\ poisoned["MODULE"]
    /\ \E k \in 1..Len(LOGS) : LOGS[k].module = Str_empty
    /\ \E k \in 1..Len(LOGS) :
           LOGS[k].message \in Range(appended["MODULE_LOGS"])

\* C5: once a logger is installed, no log call and no call of the
\* presentation thread ends in a panic.
C5_SteadyStateTotal ==
    logger_set => \A t \in Loggers \cup {Presenter} : pc[t] # "panicked"

\* The event r is routed to the secondary store.
Routed(r) ==
    /\ custom_module.some
    /\ get_top_level_record_module(r.target) = custom_module.val

\* C10: while a thread holds the lock of the secondary store, a log call
\* whose event is not routed to the secondary store is not blocked: after
\* its push on the primary store it can take its next step.
C10_IndependentLocks ==
    \A t \in Loggers :
        ( /\ pc[t] = "log_module"
          /\ ~Routed(record[t].val)
          /\ lock_holder["MODULE_LOGS"] # NoThread )
        => CanLock("MODULE")

\* The positions of an init or init_for_module call before set_logger has
\* answered.
InitCallPcs == {"ifm_lock", "ifm_reserve", "init_reserve", "init_set_logger"}

\* C4: a call of init or init_for_module that is running while a logger is
\* installed can only end in a panic; a call ends otherwise only by
\* installing the logger itself, and an installed logger stays: at most one
\* is ever installed.
C4_DoubleInitPanics ==
    [][ /\ logger_set => logger_set'
        /\ \A t \in Initers :
            (pc[t] \in InitCallPcs /\ pc'[t] \notin InitCallPcs) =>
                /\ logger_set => pc'[t] = "panicked"
                /\ pc'[t] # "panicked" => (~logger_set /\ logger_set')
      ]_vars

\* C4, witness: a call made while a logger was installed has panicked.
C4_Witness ==
    \E t \in Initers :
        /\ pc[t] = "panicked"
        /\ at_call[t].some
        /\ at_call[t].val.logger_set

Str_a == <<"a">>
Str_a_b_c == <<"a", ":", ":", "b", ":", ":", "c">>

\* C6: get_top_level_record_module yields "a" for "a::b::c" and the
\* sentinel "<unknown>" for the empty target.
C6_Normalization ==
    call.fn = "get_top_level_record_module" =>
        /\ call.target = Str_a_b_c => call.ret = Str_a
        /\ call.target = Str_empty => call.ret = Str_unknown

\* Severity as the specification orders it: Error is the most severe.
SeverityRank(l) ==
    CASE l = "Error" -> 5
      [] l = "Warn"  -> 4
      [] l = "Info"  -> 3
      [] l = "Debug" -> 2
      [] l = "Trace" -> 1

\* C7: with a threshold, record_above_set_filter is true exactly of the
\* records at least as severe as the threshold; with the filter of a new
\* DebugView (no threshold) it is true of every record, as it is with the
\* threshold Trace.
C7_SeverityVisibility ==
    call.fn = "record_above_set_filter" =>
        /\ call.display_filter \in Levels =>
            (call.ret <=> SeverityRank(call.record_level)
                            >= SeverityRank(call.display_filter))
        /\ call.display_filter = DebugView_new.log_filter =>
            /\ call.display_filter \notin Levels
            /\ call.ret
        /\ call.display_filter = "Trace" => call.ret

\* C7, witness: with the threshold Warn a record of level Info is hidden.
C7_Witness ==
    /\ call.fn = "record_above_set_filter"
    /\ call.record_level = "Info"
    /\ call.display_filter = "Warn"
    /\ ~call.ret

\* C8: an init_for_module call that finds its source in MODULE already ends
\* without a panic and leaves MODULE and the capacity of the secondary
\* store as it found them.
C8_RegistrationIdempotent ==
    \A t \in Initers :
        ( /\ module[t].some
          /\ at_call[t].some
          /\ at_call[t].val.custom_module = module[t] ) =>
            /\ pc[t] # "panicked"
            /\ pc[t] \in {"ifm_reserve", "init_reserve", "init_set_logger",
                          "ifm_return"} => custom_module = module[t]
            /\ pc[t] \in {"init_reserve", "init_set_logger", "ifm_return"} =>
                capacity["MODULE_LOGS"] = at_call[t].val.secondary_capacity

\* C9: what a draw has iterated is the window of the store as it stands,
\* no log_record_to call on that store is between its eviction and its
\* push, and the records iterated are the ones pushed last, in push order.
C9_SnapshotNotTorn ==
    pc[Presenter] = "draw_return" =>
        LET logs == deque[frame.store]
        IN  /\ ~MidAppend(frame.store)
            /\ frame.iterated = SubSeq(logs, frame.skipped + 1, Len(logs))
            /\ Ids(frame.iterated)
                   = LastK(appended[frame.store], Len(frame.iterated))

\* C9, witness: a draw holds the full secondary store, has iterated two
\* records of it, and a log call waits to append to it.
C9_Witness ==
    /\ pc[Presenter] = "draw_return"
    /\ frame.store = "MODULE_LOGS"
    /\ Len(frame.iterated) = 2
    /\ Len(MODULE_LOGS) = capacity["MODULE_LOGS"]
    /\ \E t \in Loggers :
           pc[t] = "lrt_lock" /\ log_buffer[t] = "MODULE_LOGS"

\* A step of the presentation thread.
PresenterActs ==
    \/ pc'[Presenter] # pc[Presenter]
    \/ view_vars' # view_vars

\* The window of a store a printer of height h shows: its last min(L, h)
\* records.
Window(logs, h) == LastK(logs, Min(Len(logs), h))

\* C12: no step of the view (set_filter, set_module, building the module
\* selector, draw, required_size) changes the content or the capacity of a
\* store or MODULE; and what a draw prints depends on the threshold of the
\* moment only: every record of the window that passes it is printed,
\* whatever the thresholds before.
C12_FilteringIsViewOnly ==
    /\ [][PresenterActs => UNCHANGED <<deque, capacity, custom_module>>]_vars
    /\ [](pc[Presenter] = "draw_return" =>
            \A k \in 1..Len(frame.iterated) :
                record_above_set_filter(frame.iterated[k].level, log_filter)
                    => \E j \in 1..Len(frame.printed) :
                           frame.printed[j].record = frame.iterated[k])

\* C12, witness: after set_filter and set_module have acted, a draw of the
\* secondary store prints a record of level Info under the threshold Info,
\* with both stores holding records.
C12_Witness ==
    /\ pc[Presenter] = "draw_return"
    /\ log_filter = "Info"
    /\ module_filter = "Module"
    /\ Len(LOGS) > 0
    /\ \E j \in 1..Len(frame.printed) : frame.printed[j].record.level = "Info"

\* C14: a draw of height H on a store of L records skips max(0, L - H)
\* records and iterates the last min(L, H) records of the store, in the
\* order of the store.
C14_ViewportSkip ==
    pc[Presenter] = "draw_return" =>
        LET logs == deque[frame.store]
            L == Len(logs)
            H == frame.size_y
        IN  /\ frame.skipped = Max(0, L - H)
            /\ Len(frame.iterated) = Min(L, H)
            /\ \A k \in 1..Min(L, H) :
                   frame.iterated[k] = logs[L - Min(L, H) + k]

\* C14, witness: a draw of height 2 on a store of 3 records has skipped one
\* record.
C14_Witness ==
    /\ pc[Presenter] = "draw_return"
    /\ frame.size_y = 2
    /\ Len(deque[frame.store]) = 3
    /\ frame.skipped = 1

\* C19: a draw reads the primary store under the scope All and the
\* secondary store under the scope Module, and holds no other store; it
\* prints the records of the window that pass record_above_set_filter, in
\* the order of the store, on the rows 0, 1, ..., k-1, k <= H.
C19_DrawSelectsThenFilters ==
    pc[Presenter] = "draw_return" =>
        LET shown == SelectSeq(Window(deque[frame.store], frame.size_y),
                        LAMBDA r : record_above_set_filter(r.level, log_filter))
        IN  /\ module_filter = "All" => frame.store = "LOGS"
            /\ module_filter = "Module" => frame.store = "MODULE_LOGS"
            /\ \A b \in Buffers :
                   lock_holder[b] = Presenter <=> b = frame.store
            /\ Len(frame.printed) = Len(shown)
            /\ Len(frame.printed) <= frame.size_y
            /\ \A j \in 1..Len(shown) :
                   /\ frame.printed[j].record = shown[j]
                   /\ frame.printed[j].row = j - 1

\* C19, witness: a draw of two records of the primary store prints the
\* second one on row 0, the first one not passing the threshold; and the
\* secondary store holds records the draw does not read.
C19_Witness ==
    /\ pc[Presenter] = "draw_return"
    /\ module_filter = "All"
    /\ Len(frame.iterated) = 2
    /\ Len(frame.printed) = 1
    /\ frame.printed[1].record = frame.iterated[2]
    /\ Len(MODULE_LOGS) > 0

\* No init or init_for_module call is under way.
NoInitRunning == \A t \in Initers : pc[t] \in {"idle", "panicked"}

\* C16: whenever the logger is installed and MODULE holds a source (and no
\* initialization is under way), the secondary store has the capacity of
\* the primary store.
C16_SameCapacity ==
    (logger_set /\ custom_module.some /\ NoInitRunning) =>
        capacity["MODULE_LOGS"] = capacity["LOGS"]

\* C17: every record of the secondary store has the source MODULE holds,
\* and the secondary store is empty while MODULE holds none.
C17_SecondaryScoped ==
    /\ ~custom_module.some => MODULE_LOGS = <<>>
    /\ \A k \in 1..Len(MODULE_LOGS) :
           /\ custom_module.some
           /\ MODULE_LOGS[k].module = custom_module.val

\* C18: no step of an init or init_for_module call that was made with a
\* logger installed changes MODULE, the content of a store or the capacity
\* of a store.
C18_RejectedInitNoEffect ==
    [][\A t \in Initers :
          ( /\ at_call[t].some
            /\ at_call[t].val.logger_set
            /\ pc'[t] # pc[t] )
          => UNCHANGED <<custom_module, deque, capacity>>]_vars

\* What a Record holds of its event: all but the time.
Event(r) == <<r.message, r.level, r.module>>

\* The log calls of A, B and C have returned, "net" was in MODULE before B
\* was emitted, and both stores have the capacity 2.
ScenarioDone ==
    /\ next_event = Len(ScenarioEvents) + 1
    /\ \A t \in Loggers : pc[t] = "idle"
    /\ registered_at.some
    /\ registered_at.val.source = Str_net
    /\ registered_at.val.from <= 2
    /\ custom_module = Some(Str_net)
    /\ capacity = [b \in Buffers |-> 2]

\* C15: after the scenario both stores hold B and C in this order, and a
\* draw of the secondary store under the threshold Warn, on a printer that
\* fits both, prints C alone.
C15_Scenario ==
    ScenarioDone =>
        /\ \A b \in Buffers :
               /\ Len(deque[b]) = 2
               /\ Event(deque[b][1]) = <<2, "Info", Str_net>>
               /\ Event(deque[b][2]) = <<3, "Warn", Str_net>>
        /\ ( /\ pc[Presenter] = "draw_return"
             /\ frame.store = "MODULE_LOGS"
             /\ frame.size_y >= 2
             /\ log_filter = "Warn" ) =>
               /\ Len(frame.printed) = 1
               /\ Event(frame.printed[1].record) = <<3, "Warn", Str_net>>

\* C15, witness: the scenario has run and the secondary store is drawn
\* under the threshold Warn.
C15_Witness ==
    /\ ScenarioDone
    /\ appended["LOGS"] = <<1, 2, 3>>
    /\ pc[Presenter] = "draw_return"
    /\ frame.store = "MODULE_LOGS"
    /\ frame.size_y >= 2
    /\ log_filter = "Warn"

\* C13: the record the secondary store holds of an event is the record the
\* primary store holds of it: level, module, message and time are equal.
C13_SameLogicalRecord ==
    \A i \in 1..Len(LOGS), j \in 1..Len(MODULE_LOGS) :
        LOGS[i].message = MODULE_LOGS[j].message => LOGS[i] = MODULE_LOGS[j]

\* C20: in each store the times of the records do not decrease from the
\* front to the back.
C20_TimestampsNonDecreasing ==
    \A b \in Buffers :
        \A i, j \in 1..Len(deque[b]) :
            i < j => deque[b][i].time <= deque[b][j].time

\* C20, witness: two concurrent log calls have pushed B and C on the
\* primary store in one order and on the secondary store in the other, at
\* different times.
C20_Witness ==
    /\ Ids(LOGS) = <<2, 3>>
    /\ Ids(MODULE_LOGS) = <<3, 2>>
    /\ \A b \in Buffers : deque[b][1].time < deque[b][2].time

\* The lock thread t needs for its next step, if any.
Wanted(t) ==
    IF t \in Loggers /\ pc[t] = "log_module" THEN Some("MODULE")
    ELSE IF t \in Loggers /\ pc[t] = "lrt_lock" THEN Some(log_buffer[t])
    ELSE IF t \in Initers /\ pc[t] = "ifm_lock" THEN Some("MODULE")
    ELSE IF t \in Initers /\ pc[t] = "ifm_reserve" THEN Some("MODULE_LOGS")
    ELSE IF t \in Initers /\ pc[t] = "init_reserve" THEN Some("LOGS")
    ELSE None

\* Thread t waits for a lock another thread holds.
Blocked(t) == Wanted(t).some /\ ~CanLock(Wanted(t).val)

\* Following the holders of the locks waited for, from t, a thread that can
\* run is met within n threads.
RECURSIVE Unblocks(_, _)
Unblocks(t, n) ==
    \/ ~Blocked(t)
    \/ n > 0 /\ Unblocks(lock_holder[Wanted(t).val], n - 1)

\* A call of thread t is under way.
Started(t) == pc[t] \notin {"idle", "panicked"}

==========================================================================
